---- MODULE Spec2Model ----
(***************************************************************************)
(* A model of AnalyseProgramm.py: the CSV -> HTML dashboard pipeline       *)
(* (load_csv, build_figures, write_dashboard, generate_dashboard) and its  *)
(* pure helpers (_coerce_numeric, _clean_object_columns, infer_units).     *)
(*                                                                         *)
(* Text is a sequence of one-character strings, so that replacing,         *)
(* stripping, searching and parsing are computed and not assumed.  A cell  *)
(* of a table is a record with a kind:                                     *)
(*   "str"  a text cell (field s)       "na"   pandas' pd.NA               *)
(*   "num"  the number n / 10^e         "nan"  the float NaN               *)
(*   "date" a timestamp, n = yyyymmdd   "nat"  NaT                         *)
(***************************************************************************)
EXTENDS Integers, Sequences, FiniteSets, TLC

\* ------------------------------------------------------------------ bounds

\* The longest text handed to _coerce_numeric on its own.
MaxTextLen == 3
\* The longest column name handed to infer_units on its own.
MaxNameLen == 4
\* The most data rows of an input table of a single run.
MaxRows == 2
\* The most data rows of an input table that is run repeatedly.
MaxRepeatRows == 1
\* The most runs of generate_dashboard on one input.
MaxRuns == 2

\* ------------------------------------------------------------------- cells

Str(t) == [k |-> "str", s |-> t, n |-> 0, e |-> 0]
Num(v, sc) == [k |-> "num", s |-> <<>>, n |-> v, e |-> sc]
NA == [k |-> "na", s |-> <<>>, n |-> 0, e |-> 0]
NaN == [k |-> "nan", s |-> <<>>, n |-> 0, e |-> 0]
NaT == [k |-> "nat", s |-> <<>>, n |-> 0, e |-> 0]
Date(v) == [k |-> "date", s |-> <<>>, n |-> v, e |-> 0]

\* Series.isna(): NaN, pd.NA and NaT are missing.
IsNa(c) == c.k \in {"na", "nan", "nat"}

\* ------------------------------------------------------------------- text

Digits == {"0", "1", "2", "3", "4", "5", "6", "7", "8", "9"}

DigitVal(c) ==
  CASE c = "0" -> 0 [] c = "1" -> 1 [] c = "2" -> 2 [] c = "3" -> 3
    [] c = "4" -> 4 [] c = "5" -> 5 [] c = "6" -> 6 [] c = "7" -> 7
    [] c = "8" -> 8 [] c = "9" -> 9

IsDigit(c) == c \in Digits

\* The value of a sequence of digits.
RECURSIVE DigitsVal(_)
DigitsVal(t) ==
  IF t = <<>> THEN 0
  ELSE 10 * DigitsVal(SubSeq(t, 1, Len(t) - 1)) + DigitVal(t[Len(t)])

\* str.replace(old, new, regex=False) for a one-character old; new is a text
\* (empty to remove the character).
RECURSIVE ReplaceChar(_, _, _)
ReplaceChar(t, old, new) ==
  IF t = <<>> THEN <<>>
  ELSE (IF Head(t) = old THEN new ELSE <<Head(t)>>) \o ReplaceChar(Tail(t), old, new)

\* n / 10^e without trailing zeros in the fraction: one representation per value.
RECURSIVE Normalize(_, _)
Normalize(v, sc) ==
  IF sc > 0 /\ v % 10 = 0 THEN Normalize(v \div 10, sc - 1) ELSE Num(v, sc)

\* pd.to_numeric(text, errors="coerce") on one text: an optional sign, digits with
\* at most one '.', at least one digit; anything else is NaN.  (Exponents, "inf"
\* and "nan" spellings cannot be written with the characters the model uses.)
ToNumericText(t) ==
  LET signed == Len(t) > 0 /\ t[1] \in {"-", "+"}
      body == IF signed THEN Tail(t) ELSE t
      dots == {i \in 1..Len(body) : body[i] = "."}
      digs == SelectSeq(body, IsDigit)
  IN  IF \/ digs = <<>>
         \/ Cardinality(dots) > 1
         \/ \E i \in 1..Len(body) : body[i] \notin Digits \cup {"."}
      THEN NaN
      ELSE LET sc == IF dots = {} THEN 0 ELSE Len(body) - (CHOOSE i \in dots : TRUE)
               mag == DigitsVal(digs)
           IN  Normalize(IF signed /\ t[1] = "-" THEN 0 - mag ELSE mag, sc)

DigitChar(d) ==
  CASE d = 0 -> "0" [] d = 1 -> "1" [] d = 2 -> "2" [] d = 3 -> "3" [] d = 4 -> "4"
    [] d = 5 -> "5" [] d = 6 -> "6" [] d = 7 -> "7" [] d = 8 -> "8" [] d = 9 -> "9"

\* The decimal digits of a natural number.
RECURSIVE NatText(_)
NatText(v) ==
  IF v < 10 THEN <<DigitChar(v)>> ELSE NatText(v \div 10) \o <<DigitChar(v % 10)>>

\* The last sc digits of v, zero-padded on the left.
RECURSIVE FracText(_, _)
FracText(v, sc) ==
  IF sc = 0 THEN <<>> ELSE FracText(v \div 10, sc - 1) \o <<DigitChar(v % 10)>>

RECURSIVE Pow10(_)
Pow10(sc) == IF sc = 0 THEN 1 ELSE 10 * Pow10(sc - 1)

\* str(float): sign, integer part, '.', fraction ("0" when there is none).
FloatText(v, sc) ==
  LET mag == IF v < 0 THEN 0 - v ELSE v
  IN  (IF v < 0 THEN <<"-">> ELSE <<>>)
        \o NatText(mag \div Pow10(sc)) \o <<".">>
        \o (IF sc = 0 THEN <<"0">> ELSE FracText(mag % Pow10(sc), sc))

\* Series.astype(str) on one cell.
AsTypeStr(c) ==
  CASE c.k = "str" -> c.s
    [] c.k = "na" -> <<"<", "N", "A", ">">>
    [] c.k = "num" -> FloatText(c.n, c.e)
    [] c.k = "nat" -> <<"N", "a", "T">>
    [] OTHER -> <<"n", "a", "n">>

\* --------------------------------------------------------- _coerce_numeric

\* is_numeric_dtype(series)
IsNumericDtype(dtype) == dtype \in {"float64", "int64"}

\* The cleaning of line 33-37 with the two replacements in the opposite order.
CleanLocaleTextSwapped(t) == ReplaceChar(ReplaceChar(t, ",", <<".">>), ".", <<>>)

\* series.astype(str).str.replace(".", "").str.replace(",", ".") on one text.
CleanLocaleText(t) == ReplaceChar(ReplaceChar(t, ".", <<>>), ",", <<".">>)

\* _coerce_numeric(series): a numeric series is returned as it is; every cell of
\* any other series is turned to text, cleaned and parsed.
CoerceNumeric(series, dtype) ==
  IF IsNumericDtype(dtype) THEN series
  ELSE [i \in 1..Len(series) |-> ToNumericText(CleanLocaleText(AsTypeStr(series[i])))]

\* (coerced >= 0).any()
AnyNonNegative(series) ==
  \E i \in 1..Len(series) : series[i].k = "num" /\ series[i].n >= 0

\* (coerced > 0).all(), which holds of a series without a number
AllPositive(series) ==
  \A i \in 1..Len(series) : series[i].k = "num" => series[i].n > 0

\* (coerced > 0).any()
AnyPositive(series) ==
  \E i \in 1..Len(series) : series[i].k = "num" /\ series[i].n > 0

\* -------------------------------------------------------------- infer_units

\* str.find(ch): the 0-based index of the first occurrence, -1 if there is none.
Find(t, ch) ==
  IF \E i \in 1..Len(t) : t[i] = ch
  THEN (CHOOSE i \in 1..Len(t) : t[i] = ch /\ \A j \in 1..(i - 1) : t[j] # ch) - 1
  ELSE 0 - 1

\* infer_units(column_name)
InferUnits(name) ==
  LET start == Find(name, "(")
      end == Find(name, ")")
  IN  IF start # 0 - 1 /\ end # 0 - 1 /\ end > start
      THEN SubSeq(name, start + 2, end)
      ELSE <<>>

Wert == <<"W", "e", "r", "t">>

\* y_label = units or "Wert"
YLabel(name) == IF InferUnits(name) # <<>> THEN InferUnits(name) ELSE Wert

\* ------------------------------------------------------------- characters

NBSP == "nbsp"     \* U+00A0, one character
NNBSP == "nnbsp"   \* U+202F, one character
TAB == "tab"       \* U+0009, one character
QUOTE == "quote"   \* the double quote, one character

\* What str.strip() removes.
Whitespace == {" ", NBSP, NNBSP, TAB}

RECURSIVE LStrip(_)
LStrip(t) == IF t # <<>> /\ Head(t) \in Whitespace THEN LStrip(Tail(t)) ELSE t

RECURSIVE RStrip(_)
RStrip(t) ==
  IF t # <<>> /\ t[Len(t)] \in Whitespace THEN RStrip(SubSeq(t, 1, Len(t) - 1)) ELSE t

\* str.strip()
Strip(t) == RStrip(LStrip(t))

\* str.contains(pat, regex of a literal): pat occurs in t.
Contains(t, pat) ==
  \E i \in 1..(Len(t) - Len(pat) + 1) : SubSeq(t, i, i + Len(pat) - 1) = pat

Datum == <<"D", "a", "t", "u", "m">>
Marker == <<"D", "e", "f", "i", "n", "i", "t", "i", "o", "n", ":">>

\* ------------------------------------------------------------ pd.read_csv

\* The python engine's number pattern for decimal="," and no thousands separator:
\* an optional sign, digits, optionally ',' and digits (the exponent part cannot
\* be written with the characters of the model's numeric cells).
NumRegex(t) ==
  LET signed == Len(t) > 0 /\ t[1] \in {"-", "+"}
      body == IF signed THEN Tail(t) ELSE t
  IN  /\ \A i \in 1..Len(body) : body[i] \in Digits \cup {","}
      /\ Cardinality({i \in 1..Len(body) : body[i] = ","}) <= 1

\* decimal=",": in a field that looks like a number the ',' becomes '.'.
CheckDecimal(t) ==
  IF (\E i \in 1..Len(t) : t[i] = ",") /\ NumRegex(Strip(t))
  THEN ReplaceChar(t, ",", <<".">>)
  ELSE t

\* A column is read as float64 when every field is empty or a number, as object
\* otherwise; a column without rows is object.
InferDtype(texts) ==
  IF texts # <<>>
     /\ \A i \in 1..Len(texts) :
          texts[i] = <<>> \/ ToNumericText(CheckDecimal(texts[i])) # NaN
  THEN "float64"
  ELSE "object"

\* One field as a cell of a column of that dtype; an empty field is missing.
ReadCell(t, dtype) ==
  IF t = <<>> THEN NaN
  ELSE IF dtype = "float64" THEN ToNumericText(CheckDecimal(t))
  ELSE Str(CheckDecimal(t))

\* The frame read from a header and the data rows below it; the row index is
\* 0, 1, 2, ... as pandas numbers it.
ReadTable(header, rows) ==
  LET dtypes == [j \in 1..Len(header) |->
                   InferDtype([i \in 1..Len(rows) |-> rows[i][j]])]
  IN  [columns |-> header,
       dtypes |-> dtypes,
       rows |-> [i \in 1..Len(rows) |->
                   [idx |-> i - 1,
                    cells |-> [j \in 1..Len(header) |-> ReadCell(rows[i][j], dtypes[j])]]]]

\* for enc in ("utf-8-sig", "cp1252"): the first encoding under which the file
\* reads, "none" when it reads under neither.
Encodings == <<"utf-8-sig", "cp1252">>

RECURSIVE FirstEncoding(_, _)
FirstEncoding(readable, encs) ==
  IF encs = <<>> THEN "none"
  ELSE IF Head(encs) \in readable THEN Head(encs)
  ELSE FirstEncoding(readable, Tail(encs))

\* --------------------------------------------------- _clean_object_columns

\* One cell of an object column: the three replacements, the quote removal, the
\* strip; a missing cell and an empty result are pd.NA.
CleanCell(c) ==
  IF IsNa(c) THEN NA
  ELSE LET t == Strip(ReplaceChar(ReplaceChar(ReplaceChar(ReplaceChar(
                    AsTypeStr(c), NNBSP, <<" ">>), NBSP, <<" ">>), TAB, <<" ">>),
                    QUOTE, <<>>))
       IN  IF t = <<>> THEN NA ELSE Str(t)

\* _clean_object_columns(df), after the column names are stripped (line 82).
CleanObjectColumns(d) ==
  [columns |-> [j \in 1..Len(d.columns) |-> Strip(d.columns[j])],
   dtypes |-> d.dtypes,
   rows |-> [i \in 1..Len(d.rows) |->
               [idx |-> d.rows[i].idx,
                cells |-> [j \in 1..Len(d.columns) |->
                             IF d.dtypes[j] = "object"
                             THEN CleanCell(d.rows[i].cells[j])
                             ELSE d.rows[i].cells[j]]]]]

\* ----------------------------------------------------------------- load_csv

\* The mask that finds a cell only when the whole cell is the marker.
DefinitionCellExact(c) == ~IsNa(c) /\ AsTypeStr(c) = Marker

\* col.astype(str).str.contains("Definition:", na=False) on one cell
DefinitionCell(c) == ~IsNa(c) /\ Contains(AsTypeStr(c), Marker)

\* definition_mask.any(axis=1) on one row
DefinitionRow(r) == \E j \in 1..Len(r.cells) : DefinitionCell(r.cells[j])

KeepRow(r) == ~DefinitionRow(r)

\* df[~definition_mask.any(axis=1)] when any cell matches, df otherwise
DropDefinitionRowsOf(d) ==
  IF \E i \in 1..Len(d.rows) : DefinitionRow(d.rows[i])
  THEN [d EXCEPT !.rows = SelectSeq(d.rows, KeepRow)]
  ELSE d

\* "Datum" in df.columns
HasDatum(columns) == \E j \in 1..Len(columns) : columns[j] = Datum

\* The position of a column that is in the frame.
ColIndex(columns, name) ==
  IF \E j \in 1..Len(columns) : columns[j] = name
  THEN CHOOSE j \in 1..Len(columns) : columns[j] = name
  ELSE 0

\* The days of a month.
DaysIn(m, y) ==
  IF m \in {4, 6, 9, 11} THEN 30
  ELSE IF m = 2
       THEN (IF (y % 4 = 0 /\ y % 100 # 0) \/ y % 400 = 0 THEN 29 ELSE 28)
       ELSE 31

\* pd.to_datetime(cell, dayfirst=True, errors="coerce") on one cell: a missing
\* cell and a text that is no date are NaT.  The texts of the model's date
\* column are either DD.MM.YYYY or no date in any reading.
ToDatetime(c) ==
  IF IsNa(c) \/ c.k # "str" THEN NaT
  ELSE LET t == c.s
       IN  IF /\ Len(t) = 10
              /\ t[3] = "." /\ t[6] = "."
              /\ \A i \in {1, 2, 4, 5, 7, 8, 9, 10} : t[i] \in Digits
           THEN LET d == DigitsVal(SubSeq(t, 1, 2))
                    m == DigitsVal(SubSeq(t, 4, 5))
                    y == DigitsVal(SubSeq(t, 7, 10))
                IN  IF m \in 1..12 /\ d >= 1 /\ d <= DaysIn(m, y) /\ y >= 1
                    THEN Date(y * 10000 + m * 100 + d)
                    ELSE NaT
           ELSE NaT

\* dropna(subset=["Datum"]) that drops nothing.
DropNaDatumNone(rows, dj) == rows

\* df.dropna(subset=["Datum"]): the rows whose date is not missing, in order.
DropNaDatum(rows, dj) ==
  LET Dated(r) == ~IsNa(r.cells[dj]) IN SelectSeq(rows, Dated)

\* Lines 95-96: the date column parsed, the rows without a date dropped.
ParseDatesOf(d) ==
  LET dj == ColIndex(d.columns, Datum)
      parsed == [i \in 1..Len(d.rows) |->
                   [d.rows[i] EXCEPT !.cells[dj] = ToDatetime(d.rows[i].cells[dj])]]
  IN  [columns |-> d.columns,
       dtypes |-> [d.dtypes EXCEPT ![dj] = "datetime64"],
       rows |-> DropNaDatum(parsed, dj)]

\* df[col] as a series
ColumnOf(d, j) == [i \in 1..Len(d.rows) |-> d.rows[i].cells[j]]

\* df[col] = coerced
SetColumn(d, j, series) ==
  [columns |-> d.columns,
   dtypes |-> [d.dtypes EXCEPT ![j] = "float64"],
   rows |-> [i \in 1..Len(d.rows) |-> [d.rows[i] EXCEPT !.cells[j] = series[i]]]]

\* df[["Datum", *numeric_cols]]
SelectColumnsOf(d, names) ==
  LET js == [k \in 1..Len(names) |-> ColIndex(d.columns, names[k])]
  IN  [columns |-> names,
       dtypes |-> [k \in 1..Len(names) |-> d.dtypes[js[k]]],
       rows |-> [i \in 1..Len(d.rows) |->
                   [idx |-> d.rows[i].idx,
                    cells |-> [k \in 1..Len(names) |-> d.rows[i].cells[js[k]]]]]]

\* ------------------------------------------------------------ build_figures

NotDatum(c) == c # Datum

\* One figure: the trace (x, y, name) and the layout; index is the row label of
\* every point, which the series carry.
Figure(d, col) ==
  [name |-> col,
   x |-> ColumnOf(d, ColIndex(d.columns, Datum)),
   y |-> ColumnOf(d, ColIndex(d.columns, col)),
   index |-> [i \in 1..Len(d.rows) |-> d.rows[i].idx],
   title |-> col,
   xaxis_title |-> Datum,
   yaxis_title |-> YLabel(col)]

\* build_figures(df)
BuildFiguresOf(d) ==
  LET value_cols == SelectSeq(d.columns, NotDatum)
  IN  [i \in 1..Len(value_cols) |-> Figure(d, value_cols[i])]

\* ---------------------------------------------------------- write_dashboard

\* html.escape(title)
RECURSIVE HtmlEscape(_)
HtmlEscape(t) ==
  IF t = <<>> THEN <<>>
  ELSE (CASE Head(t) = "&" -> <<"&", "a", "m", "p", ";">>
          [] Head(t) = "<" -> <<"&", "l", "t", ";">>
          [] Head(t) = ">" -> <<"&", "g", "t", ";">>
          [] Head(t) = QUOTE -> <<"&", "q", "u", "o", "t", ";">>
          [] Head(t) = "'" -> <<"&", "#", "x", "2", "7", ";">>
          [] OTHER -> <<Head(t)>>) \o HtmlEscape(Tail(t))

\* include_plotlyjs="inline" on every fragment.
IncludePlotlyJsAlways(idx) == TRUE

\* include_plotlyjs="inline" if idx == 0 else False
IncludePlotlyJs(idx) == idx = 0

\* The identifiers uuid.uuid4() can return for the div of a fragment.
Uuids == {"uuid-a", "uuid-b"}

\* pio.to_html(fig, include_plotlyjs=..., full_html=False, config=...) in a
\* <section class='card'>: no div_id is passed, so plotly names the div of the
\* fragment with a fresh uuid4.
Card(fig, idx, uuid) ==
  [fig |-> fig, plotlyjs |-> IncludePlotlyJs(idx), div_id |-> <<uuid, idx>>]

\* The <title> and <h1> text with the number of the run appended.
DocTitleStamped(title, r) == HtmlEscape(title) \o NatText(r)

\* The <title> and <h1> text of the document; the run does not enter it.
DocTitle(title, r) == HtmlEscape(title)

NoDoc == [title |-> <<>>, cards |-> <<>>]
NoFile == [exists |-> FALSE, complete |-> FALSE, content |-> NoDoc, by |-> 0]

\* ------------------------------------------------------------- the messages

IngestionError == "Konnte CSV nicht lesen"
SchemaError == "Spalte \"Datum\" fehlt in der CSV."
DataError == "Keine Spalten mit Werten > 0,00 gefunden."
IOError == "OSError"

\* ------------------------------------------------------------ input texts

RECURSIVE TextsOfLen(_, _)
TextsOfLen(alphabet, len) ==
  IF len = 0 THEN {<<>>}
  ELSE {<<c>> \o t : c \in alphabet, t \in TextsOfLen(alphabet, len - 1)}

TextsUpTo(alphabet, len) == UNION {TextsOfLen(alphabet, l) : l \in 0..len}

\* "1.234,56"
Example == <<"1", ".", "2", "3", "4", ",", "5", "6">>

CoerceAlphabet == {"1", "0", ".", ",", "-", "a"}

\* The series handed to _coerce_numeric on its own: object series of one text or
\* one missing cell, and numeric series.
ObjectSeries ==
  {<<Str(t)>> : t \in TextsUpTo(CoerceAlphabet, MaxTextLen) \cup {Example}}
    \cup {<<NA>>, <<Str(Example), NA, Str(<<"a">>)>>}

NumericSeries ==
  {<<Num(123456, 2)>>, <<Num(0, 0), NaN>>, <<Num(0 - 15, 1), Num(2, 0)>>, <<NaN>>}

NameAlphabet == {"(", ")", "k", "W"}

\* The column names of the input tables: " Datum", "P (kW)", "S", "T".
DatumPadded == <<" ">> \o Datum
ColP == <<"P", " ", "(", "k", "W", ")">>
ColS == <<"S">>
ColT == <<"T">>

Headers == {<<DatumPadded, ColP, ColS>>, <<ColT, Datum>>, <<ColP, ColS>>}

\* The fields of the date column: "01.02.2024", "x" and the empty field.
DateTexts == {<<"0", "1", ".", "0", "2", ".", "2", "0", "2", "4">>, <<"x">>, <<>>}

\* The fields of column "P (kW)": "1.234,56" followed by a no-break space,
\* "0,00", the empty field and the annotation "Definition: x".
PTexts == {Example \o <<NBSP>>, <<"0", ",", "0", "0">>, <<>>, Marker \o <<" ", "x">>}

\* The fields of column "S": "2,5" and "-1".
STexts == {<<"2", ",", "5">>, <<"-", "1">>}

\* "Defini" + a double quote + "tion:": the marker once the quote is removed.
SplitMarker ==
  <<"D", "e", "f", "i", "n", "i", QUOTE, "t", "i", "o", "n", ":">>

\* The fields of column "T": "2,5", "-1" and the marker split by a quote.
TTexts == {<<"2", ",", "5">>, <<"-", "1">>, SplitMarker}

CellTexts(name) ==
  IF Strip(name) = Datum THEN DateTexts
  ELSE IF name = ColP THEN PTexts
  ELSE IF name = ColS THEN STexts
  ELSE TTexts

RowsOf(header) ==
  {r \in [1..Len(header) -> DateTexts \cup PTexts \cup STexts \cup TTexts] :
     \A j \in 1..Len(header) : r[j] \in CellTexts(header[j])}

TablesOf(header, maxrows) == UNION {[1..n -> RowsOf(header)] : n \in 0..maxrows}

\* "E<1"
TitleText == <<"E", "<", "1">>

\* The files: every table in a file that reads as UTF-8, and the tables without
\* rows in a file that reads only as cp1252 or under neither encoding.
Inputs(maxrows) ==
  UNION {{[readable |-> {"utf-8-sig", "cp1252"}, header |-> h, rows |-> t,
           title |-> TitleText] : t \in TablesOf(h, maxrows)} : h \in Headers}
    \cup {[readable |-> rd, header |-> h, rows |-> <<>>, title |-> TitleText] :
            rd \in {{"cp1252"}, {}}, h \in Headers}

NoInput == [readable |-> {}, header |-> <<>>, rows |-> <<>>, title |-> <<>>]
NoFrame == [columns |-> <<>>, dtypes |-> <<>>, rows |-> <<>>]

\* ------------------------------------------------------------------ state

VARIABLES
  fn,           \* what runs: "pipeline", or a helper on its own: "coerce", "units"
  cn_series,    \* _coerce_numeric on its own: the argument
  cn_dtype,     \* its dtype
  cn_out,       \* the returned series, <<>> before the call
  iu_name,      \* infer_units on its own: the column name
  iu_out,       \* [units, label] once called
  called,       \* whether the helper has returned
  input,        \* the file and the title generate_dashboard is called with
  pc,           \* the statement of load_csv .. generate_dashboard that runs next
  run,          \* the number of this call of generate_dashboard
  df,           \* the frame
  ci,           \* the position in df.columns of the coercion loop's next pass
  numeric_cols, \* numeric_cols of load_csv
  coerced,      \* history: [col, series] of every _coerce_numeric call of the run
  stages,       \* history: the stages entered by the run, in order
  figures,      \* what build_figures returned
  doc,          \* html_doc of write_dashboard
  file,         \* the output file on disk
  error,        \* the message of the exception that ended the run, "" if none
  opened,       \* what webbrowser.open was last given: "", "uri", "path"
  prev          \* the document written by the last earlier run that completed

helper_vars == <<cn_series, cn_dtype, cn_out, iu_name, iu_out, called>>
run_vars == <<df, ci, numeric_cols, coerced, figures, doc, error, opened>>
vars == <<fn, helper_vars, input, pc, run, run_vars, stages, file, prev>>

NoUnits == [units |-> <<>>, label |-> <<>>]

HelpersIdle ==
  /\ cn_series = <<>> /\ cn_dtype = "object" /\ cn_out = <<>>
  /\ iu_name = <<>> /\ iu_out = NoUnits /\ called = FALSE

PipelineIdle ==
  /\ input = NoInput /\ pc = "idle" /\ run = 0
  /\ df = NoFrame /\ ci = 0 /\ numeric_cols = <<>> /\ coerced = <<>>
  /\ stages = <<>> /\ figures = <<>> /\ doc = NoDoc /\ file = NoFile
  /\ error = "" /\ opened = "" /\ prev = NoDoc

\* ------------------------------------------- the helpers run on their own

InitCoerce ==
  /\ fn = "coerce"
  /\ \E d \in {"object", "float64"} :
       /\ cn_dtype = d
       /\ cn_series \in (IF d = "object" THEN ObjectSeries ELSE NumericSeries)
  /\ cn_out = <<>>
  /\ iu_name = <<>> /\ iu_out = NoUnits /\ called = FALSE
  /\ PipelineIdle

CallCoerce ==
  /\ fn = "coerce" /\ ~called
  /\ cn_out' = CoerceNumeric(cn_series, cn_dtype)
  /\ called' = TRUE
  /\ UNCHANGED <<fn, cn_series, cn_dtype, iu_name, iu_out>>
  /\ UNCHANGED <<input, pc, run, run_vars, stages, file, prev>>

SpecCoerce == InitCoerce /\ [][CallCoerce]_vars

InitUnits ==
  /\ fn = "units"
  /\ iu_name \in TextsUpTo(NameAlphabet, MaxNameLen)
  /\ iu_out = NoUnits
  /\ cn_series = <<>> /\ cn_dtype = "object" /\ cn_out = <<>>
  /\ called = FALSE
  /\ PipelineIdle

CallUnits ==
  /\ fn = "units" /\ ~called
  /\ iu_out' = [units |-> InferUnits(iu_name), label |-> YLabel(iu_name)]
  /\ called' = TRUE
  /\ UNCHANGED <<fn, cn_series, cn_dtype, cn_out, iu_name>>
  /\ UNCHANGED <<input, pc, run, run_vars, stages, file, prev>>

SpecUnits == InitUnits /\ [][CallUnits]_vars

\* -------------------------------------------------------- generate_dashboard

\* The statements of load_csv, build_figures, write_dashboard and
\* generate_dashboard in the order the code runs them, moved so that the
\* coercion loop comes before the check for the date column.
StageAfterCoerceFirst(p) ==
  CASE p = "read" -> "clean" [] p = "clean" -> "defrows" [] p = "defrows" -> "coerce"
    [] p = "coerce" -> "datum" [] p = "datum" -> "dates" [] p = "dates" -> "select"
    [] p = "select" -> "figures" [] p = "figures" -> "render"
    [] p = "render" -> "write" [] p = "write" -> "open" [] p = "open" -> "done"

\* The same statements with the check for an empty numeric_cols moved behind
\* the write.
StageAfterSelectLast(p) ==
  CASE p = "read" -> "clean" [] p = "clean" -> "defrows" [] p = "defrows" -> "datum"
    [] p = "datum" -> "dates" [] p = "dates" -> "coerce" [] p = "coerce" -> "figures"
    [] p = "figures" -> "render" [] p = "render" -> "write" [] p = "write" -> "select"
    [] p = "select" -> "open" [] p = "open" -> "done"

\* The statements of load_csv, build_figures, write_dashboard and
\* generate_dashboard in the order the code runs them.
StageAfter(p) ==
  CASE p = "read" -> "clean" [] p = "clean" -> "defrows" [] p = "defrows" -> "datum"
    [] p = "datum" -> "dates" [] p = "dates" -> "coerce" [] p = "coerce" -> "select"
    [] p = "select" -> "figures" [] p = "figures" -> "render"
    [] p = "render" -> "write" [] p = "write" -> "open" [] p = "open" -> "done"

\* The stage of the design a statement belongs to.
StageOf(p) ==
  CASE p = "read" -> "Load"
    [] p \in {"clean", "defrows", "datum", "dates"} -> "Clean"
    [] p \in {"coerce", "select"} -> "Coerce/Select"
    [] p = "figures" -> "BuildFigures"
    [] p \in {"render", "write"} -> "Render"
    [] OTHER -> "Open"

\* A statement runs: its stage is entered unless the run is in it already.
Entered(p) ==
  IF stages # <<>> /\ stages[Len(stages)] = StageOf(p) THEN stages
  ELSE Append(stages, StageOf(p))

InitRun(maxrows) ==
  /\ fn = "pipeline"
  /\ HelpersIdle
  /\ input \in Inputs(maxrows)
  /\ pc = "read" /\ run = 1
  /\ df = NoFrame /\ ci = 1 /\ numeric_cols = <<>> /\ coerced = <<>>
  /\ stages = <<>> /\ figures = <<>> /\ doc = NoDoc /\ file = NoFile
  /\ error = "" /\ opened = "" /\ prev = NoDoc

Init == InitRun(MaxRows)

\* Lines 64-80: read under the first encoding that works, or give up.
ReadCsv ==
  /\ pc = "read"
  /\ stages' = Entered("read")
  /\ LET enc == FirstEncoding(input.readable, Encodings)
     IN  IF enc = "none"
         THEN /\ pc' = "failed" /\ error' = IngestionError
              /\ UNCHANGED df
         ELSE /\ df' = ReadTable(input.header, input.rows)
              /\ pc' = StageAfter("read")
              /\ UNCHANGED error
  /\ UNCHANGED <<fn, helper_vars, input, run, ci, numeric_cols, coerced, figures,
                 doc, opened, file, prev>>

\* Lines 82-83: strip the column names, clean the object columns.
CleanColumns ==
  /\ pc = "clean"
  /\ stages' = Entered("clean")
  /\ df' = CleanObjectColumns(df)
  /\ pc' = StageAfter("clean")
  /\ UNCHANGED <<fn, helper_vars, input, run, ci, numeric_cols, coerced, figures,
                 doc, error, opened, file, prev>>

\* Lines 85-90: remove the rows that hold the marker.
DropDefinitionRows ==
  /\ pc = "defrows"
  /\ stages' = Entered("defrows")
  /\ df' = DropDefinitionRowsOf(df)
  /\ pc' = StageAfter("defrows")
  /\ UNCHANGED <<fn, helper_vars, input, run, ci, numeric_cols, coerced, figures,
                 doc, error, opened, file, prev>>

\* Lines 92-93: the date column must be there.
CheckDatum ==
  /\ pc = "datum"
  /\ stages' = Entered("datum")
  /\ IF HasDatum(df.columns)
     THEN pc' = StageAfter("datum") /\ UNCHANGED error
     ELSE pc' = "failed" /\ error' = SchemaError
  /\ UNCHANGED <<fn, helper_vars, input, run, df, ci, numeric_cols, coerced, figures,
                 doc, opened, file, prev>>

\* Lines 95-96: parse the dates, drop the rows without one.
ParseDates ==
  /\ pc = "dates"
  /\ stages' = Entered("dates")
  /\ df' = ParseDatesOf(df)
  /\ pc' = StageAfter("dates")
  /\ UNCHANGED <<fn, helper_vars, input, run, ci, numeric_cols, coerced, figures,
                 doc, error, opened, file, prev>>

\* Lines 99-105: one pass of the loop over df.columns.
CoerceColumn ==
  /\ pc = "coerce"
  /\ ci <= Len(df.columns)
  /\ stages' = Entered("coerce")
  /\ LET col == df.columns[ci]
         series == CoerceNumeric(ColumnOf(df, ci), df.dtypes[ci])
     IN  IF col = Datum
         THEN UNCHANGED <<df, numeric_cols, coerced>>
         ELSE /\ coerced' = Append(coerced, [col |-> col, series |-> series])
              /\ IF AnyPositive(series)
                 THEN /\ df' = SetColumn(df, ci, series)
                      /\ numeric_cols' = Append(numeric_cols, col)
                 ELSE UNCHANGED <<df, numeric_cols>>
  /\ ci' = ci + 1
  /\ pc' = IF ci = Len(df.columns) THEN StageAfter("coerce") ELSE "coerce"
  /\ UNCHANGED <<fn, helper_vars, input, run, figures, doc, error, opened, file, prev>>

\* Lines 107-110: no column left is an error; else the date and those columns.
SelectColumns ==
  /\ pc = "select"
  /\ stages' = Entered("select")
  /\ IF numeric_cols = <<>>
     THEN pc' = "failed" /\ error' = DataError /\ UNCHANGED df
     ELSE /\ df' = SelectColumnsOf(df, <<Datum>> \o numeric_cols)
          /\ pc' = StageAfter("select")
          /\ UNCHANGED error
  /\ UNCHANGED <<fn, helper_vars, input, run, ci, numeric_cols, coerced, figures,
                 doc, opened, file, prev>>

\* Line 200: figures = build_figures(df)
BuildFigures ==
  /\ pc = "figures"
  /\ stages' = Entered("figures")
  /\ figures' = BuildFiguresOf(df)
  /\ pc' = StageAfter("figures")
  /\ UNCHANGED <<fn, helper_vars, input, run, df, ci, numeric_cols, coerced,
                 doc, error, opened, file, prev>>

\* Lines 153-186: one card per figure, then the document around them.  The
\* uuid4 values of one run are taken as one draw, numbered by fragment.
RenderDashboard ==
  /\ pc = "render"
  /\ stages' = Entered("render")
  /\ \E u \in Uuids :
       doc' = [title |-> DocTitle(input.title, run),
               cards |-> [i \in 1..Len(figures) |-> Card(figures[i], i - 1, u)]]
  /\ pc' = StageAfter("render")
  /\ UNCHANGED <<fn, helper_vars, input, run, df, ci, numeric_cols, coerced,
                 figures, error, opened, file, prev>>

\* Line 188: out_path.write_text(html_doc).  The file is opened for writing
\* (created, or emptied) and then written; either step can raise OSError.
WriteText ==
  /\ pc = "write"
  /\ stages' = Entered("write")
  /\ \/ /\ file' = [exists |-> TRUE, complete |-> TRUE, content |-> doc, by |-> run]
        /\ pc' = StageAfter("write")
        /\ UNCHANGED error
     \/ /\ UNCHANGED file
        /\ pc' = "failed" /\ error' = IOError
     \/ /\ file' = [exists |-> TRUE, complete |-> FALSE, content |-> NoDoc, by |-> run]
        /\ pc' = "failed" /\ error' = IOError
  /\ UNCHANGED <<fn, helper_vars, input, run, df, ci, numeric_cols, coerced,
                 figures, doc, opened, prev>>

\* Lines 203-207: open the report by its URI; if that raises, by its path.
OpenReport ==
  /\ pc = "open"
  /\ stages' = Entered("open")
  /\ \E raised \in BOOLEAN : opened' = IF raised THEN "path" ELSE "uri"
  /\ pc' = StageAfter("open")
  /\ UNCHANGED <<fn, helper_vars, input, run, df, ci, numeric_cols, coerced,
                 figures, doc, error, file, prev>>

\* generate_dashboard is called again with the same arguments (the front-end
\* does so on every drop of the same file); the file on disk stays.
Rerun ==
  /\ pc \in {"done", "failed"}
  /\ run < MaxRuns
  /\ run' = run + 1
  /\ prev' = IF pc = "done" THEN doc ELSE prev
  /\ pc' = "read"
  /\ df' = NoFrame /\ ci' = 1 /\ numeric_cols' = <<>> /\ coerced' = <<>>
  /\ stages' = <<>> /\ figures' = <<>> /\ doc' = NoDoc
  /\ error' = "" /\ opened' = ""
  /\ UNCHANGED <<fn, helper_vars, input, file>>

Next ==
  \/ ReadCsv \/ CleanColumns \/ DropDefinitionRows \/ CheckDatum \/ ParseDates
  \/ CoerceColumn \/ SelectColumns \/ BuildFigures \/ RenderDashboard
  \/ WriteText \/ OpenReport

Spec == Init /\ [][Next]_vars

InitRepeat == InitRun(MaxRepeatRows)

NextRepeat == Next \/ Rerun

SpecRepeat == InitRepeat /\ [][NextRepeat]_vars

\* ------------------------------------------------------------------ claims

\* The run is past the coercion loop (it may have failed later).
PastCoercion ==
  \/ pc \in {"select", "figures", "render", "write", "open", "done"}
  \/ pc = "failed" /\ error \in {DataError, IOError}

\* load_csv has returned its table.
Returned ==
  \/ pc \in {"figures", "render", "write", "open", "done"}
  \/ pc = "failed" /\ error = IOError

\* write_dashboard has built its cards and the document.
Rendered ==
  \/ pc \in {"write", "open", "done"}
  \/ pc = "failed" /\ error = IOError

SeqRange(q) == {q[i] : i \in 1..Len(q)}

\* C1: past the coercion loop, every non-date column was coerced once, over
\* exactly the rows that survived annotation-row removal and date parsing, and
\* it is among the kept columns if and only if one of its coerced values is
\* strictly greater than zero; the returned table holds the date column and the
\* kept columns, and there is one figure per kept column.
C1_ColumnSurvival ==
  PastCoercion =>
    /\ {coerced[k].col : k \in 1..Len(coerced)}
         = {Strip(input.header[j]) : j \in 1..Len(input.header)} \ {Datum}
    /\ Len(coerced) = Len(input.header) - 1
    /\ \A k \in 1..Len(coerced) :
         /\ Len(coerced[k].series) = Len(df.rows)
         /\ coerced[k].col \in SeqRange(numeric_cols)
              <=> \E i \in 1..Len(coerced[k].series) :
                    coerced[k].series[i].k = "num" /\ coerced[k].series[i].n > 0
    /\ Returned => df.columns = <<Datum>> \o numeric_cols
    /\ Rendered => [i \in 1..Len(figures) |-> figures[i].name] = numeric_cols

\* C1's case: the run completed with column "S" kept and column "P (kW)", whose
\* coerced values are zero or missing, dropped.
C1_Witness ==
  /\ pc = "done"
  /\ numeric_cols = <<ColS>>
  /\ \E k \in 1..Len(coerced) :
       /\ coerced[k].col = ColP
       /\ \E i \in 1..Len(coerced[k].series) : coerced[k].series[i] = Num(0, 0)

StageOrder == <<"Load", "Clean", "Coerce/Select", "BuildFigures", "Render", "Open">>

\* The stages entered so far are the first stages of the fixed order, each once.
StagesInOrder ==
  /\ Len(stages) <= Len(StageOrder)
  /\ stages = SubSeq(StageOrder, 1, Len(stages))
  /\ pc = "done" => stages = StageOrder

\* This run has put a file (complete or not) at the output path.
FileOfThisRun == file.exists /\ file.by = run

\* C2 as stated: the stages run once each in the fixed order, and a run that
\* ends in a failure at any stage, the write step included, has produced no
\* output file.
C2_NoFileOnAnyFailure ==
  /\ StagesInOrder
  /\ pc = "failed" => ~FileOfThisRun

\* C2 as amended: the stages run once each in the fixed order, and a run
\* that ends in a failure raised before the write step has produced no output
\* file.
C2_NoFileOnEarlierFailure ==
  /\ StagesInOrder
  /\ (pc = "failed" /\ error # IOError) => ~FileOfThisRun
  /\ pc \in {"read", "clean", "defrows", "datum", "dates", "coerce", "select",
             "figures", "render", "write"} => ~FileOfThisRun

\* C2's case: the run failed in the Coerce/Select stage and left no file.
C2_Witness ==
  /\ pc = "failed" /\ error = DataError
  /\ stages = <<"Load", "Clean", "Coerce/Select">>
  /\ ~file.exists

\* The failure kind the design names for "no row has a date"; no statement of
\* the code raises it.
ParseError == "ParseError"

\* The date column was there and has been parsed.
DatesParsed ==
  \/ pc \in {"coerce", "select", "figures", "render", "write", "open", "done"}
  \/ pc = "failed" /\ error \notin {IngestionError, SchemaError}

\* The date column was there and parsed, and no row survived.
ZeroRowsSurvived == DatesParsed /\ df.rows = <<>>

\* C3 as stated: when no row survives date parsing, the run ends in ParseError,
\* which is not the DataError of "no column has a positive value".
C3_ZeroRowsParseError ==
  (ZeroRowsSurvived /\ pc \notin {"coerce", "select"})
    => pc = "failed" /\ error = ParseError /\ error # DataError

\* C3 as amended: when no row survives date parsing, the run ends in the same
\* failure that reports that no column has a positive value (DataError).
C3_ZeroRowsDataError ==
  (ZeroRowsSurvived /\ pc \notin {"coerce", "select"})
    => pc = "failed" /\ error = DataError

\* C3's case: the table had rows and a date column, no date parsed, and the run
\* failed.
C3_Witness ==
  /\ pc = "failed"
  /\ ZeroRowsSurvived
  /\ Len(input.rows) > 0
  /\ \A i \in 1..Len(input.rows) : \A j \in 1..Len(input.header) :
       ~Contains(input.rows[i][j], Marker)

\* The header row of a file that was read has no column named "Datum".
NoDatumColumn ==
  /\ input.readable # {}
  /\ \A j \in 1..Len(input.header) : input.header[j] \notin {Datum, DatumPadded}

\* C4: a run on a table without a "Datum" column never gets past the check for
\* the date column, never coerces a column and ends in SchemaError; whenever a
\* run ends in SchemaError no column has been coerced, and a column is only ever
\* coerced once the date column was found.
C4_SchemaErrorBeforeCoercion ==
  /\ NoDatumColumn =>
       coerced = <<>> /\ pc \in {"read", "clean", "defrows", "datum", "failed"}
  /\ (NoDatumColumn /\ pc = "failed") => error = SchemaError
  /\ (pc = "failed" /\ error = SchemaError) => coerced = <<>> /\ NoDatumColumn
  /\ coerced # <<>> => HasDatum(df.columns)

\* C4's case: a table with rows and value columns but no date column failed
\* with SchemaError.
C4_Witness ==
  /\ pc = "failed" /\ error = SchemaError
  /\ NoDatumColumn
  /\ Len(input.rows) > 0
  /\ coerced = <<>>

\* A document without the div identifiers of its fragments.
WithoutDivIds(d) ==
  [title |-> d.title,
   cards |-> [i \in 1..Len(d.cards) |->
                [fig |-> d.cards[i].fig, plotlyjs |-> d.cards[i].plotlyjs]]]

\* This run wrote its document and an earlier run on the same input wrote one.
WroteAgain ==
  /\ pc \in {"open", "done"}
  /\ run > 1
  /\ prev # NoDoc
  /\ file.complete /\ file.by = run

\* C5 as stated: the document of a second run on the same input, title and
\* header row is the document of the first, byte for byte.
C5_ByteIdentical == WroteAgain => file.content = prev

\* C5 as amended: the documents of two runs on the same input are the same but
\* for the div identifier of each fragment: same title, same figures in the same
\* order with the same rows, the runtime in the same fragment.
C5_SameButDivIds == WroteAgain => WithoutDivIds(file.content) = WithoutDivIds(prev)

\* C5's case: a second run completed with two charts, and its document differs
\* from the first run's.
C5_Witness ==
  /\ WroteAgain
  /\ pc = "done"
  /\ Len(file.content.cards) = 2
  /\ file.content # prev

\* The raw text of a cell holds the marker.
RawMarkerRow(i) ==
  \E j \in 1..Len(input.header) : Contains(input.rows[i][j], Marker)

\* The frame as the removal step finds it: read, names stripped, cells cleaned.
CleanedInput == CleanObjectColumns(ReadTable(input.header, input.rows))

\* The text of a cell, as the removal step finds it, holds the marker.
CleanedMarkerRow(i) ==
  \E j \in 1..Len(input.header) :
    LET c == CleanedInput.rows[i].cells[j]
    IN  c.k = "str" /\ Contains(c.s, Marker)

RowLabels(rows) == {rows[i].idx : i \in 1..Len(rows)}

\* C6: once the removal step has run, no row of the frame is a row whose cell
\* text holds "Definition:"; right after the step (before the dates are parsed
\* and before any column is coerced) every other row is still there; and every
\* kept column has a value greater than zero in a row that is still in the
\* table, so a removed row never made a column survive.
C6_NoMarkerRows ==
  /\ pc \notin {"idle", "read", "clean", "defrows"} /\ error # IngestionError =>
       \A i \in 1..Len(input.rows) :
         (RawMarkerRow(i) \/ CleanedMarkerRow(i)) => (i - 1) \notin RowLabels(df.rows)
  /\ pc = "datum" =>
       /\ coerced = <<>>
       /\ \A i \in 1..Len(input.rows) :
            ~CleanedMarkerRow(i) => (i - 1) \in RowLabels(df.rows)
  /\ Returned =>
       \A k \in 2..Len(df.columns) :
         \E i \in 1..Len(df.rows) :
           /\ df.rows[i].cells[k].k = "num" /\ df.rows[i].cells[k].n > 0
           /\ ~RawMarkerRow(df.rows[i].idx + 1)

\* C6's case: the only positive value of column "S" stood in an annotation row,
\* which was removed, and the completed run has no chart of "S".
C6_Witness ==
  /\ pc = "done"
  /\ Len(input.rows) = 2
  /\ numeric_cols = <<ColP>>
  /\ ColS \in SeqRange(input.header)
  /\ \E i \in 1..2 :
       /\ RawMarkerRow(i)
       /\ input.rows[i][ColIndex(input.header, ColS)] = <<"2", ",", "5">>

\* The raw text of the date cell of input row i.
RawDate(i) ==
  input.rows[i][CHOOSE j \in 1..Len(input.header) :
                  input.header[j] \in {Datum, DatumPadded}]

StrictlyIncreasing(q) == \A i \in 1..(Len(q) - 1) : q[i] < q[i + 1]

\* C7: once the dates are parsed every date of the frame is a valid date, no
\* row of the frame is a row whose date text is "x" or empty, and the rows are
\* in their original order; every figure has one point per row of the frame,
\* in that order, with the row's date as x and never a missing x.
C7_UndatedRowsDropped ==
  /\ DatesParsed =>
       /\ \A i \in 1..Len(df.rows) :
            /\ df.rows[i].cells[ColIndex(df.columns, Datum)].k = "date"
            /\ RawDate(df.rows[i].idx + 1) \notin {<<"x">>, <<>>}
       /\ StrictlyIncreasing([i \in 1..Len(df.rows) |-> df.rows[i].idx])
  /\ Rendered =>
       \A f \in 1..Len(figures) :
         /\ Len(figures[f].x) = Len(df.rows)
         /\ Len(figures[f].y) = Len(df.rows)
         /\ figures[f].index = [i \in 1..Len(df.rows) |-> df.rows[i].idx]
         /\ \A i \in 1..Len(figures[f].x) : figures[f].x[i].k = "date"

\* C7's case: the first of two rows had the date text "x"; the completed run's
\* charts hold one point, that of the second row.
C7_Witness ==
  /\ pc = "done"
  /\ Len(input.rows) = 2
  /\ RawDate(1) = <<"x">>
  /\ \A f \in 1..Len(figures) : figures[f].index = <<1>>

\* C8: the document has one card per figure, in figure order, and the charting
\* runtime is embedded in the first card and in no other, so exactly once.
C8_RuntimeWithFirstCardOnly ==
  Rendered =>
    /\ Len(doc.cards) = Len(figures)
    /\ \A i \in 1..Len(doc.cards) :
         /\ doc.cards[i].fig = figures[i]
         /\ doc.cards[i].plotlyjs <=> i = 1
    /\ Len(figures) >= 1 =>
         Cardinality({i \in 1..Len(doc.cards) : doc.cards[i].plotlyjs}) = 1
    /\ (file.complete /\ file.by = run) => file.content = doc

\* C8's case: a document of two cards was written.
C8_Witness ==
  /\ pc = "done"
  /\ Len(figures) = 2
  /\ file.complete
  /\ Len(file.content.cards) = 2

\* The text read with ',' as the decimal separator and every '.' ignored: the
\* number it stands for, NaN when it is no number.
LocaleValue(t) ==
  LET u == SelectSeq(t, LAMBDA c : c # ".")
      signed == Len(u) > 0 /\ u[1] \in {"-", "+"}
      body == IF signed THEN Tail(u) ELSE u
      commas == {i \in 1..Len(body) : body[i] = ","}
      cut == IF commas = {} THEN Len(body) + 1 ELSE CHOOSE i \in commas : TRUE
      ipart == SubSeq(body, 1, cut - 1)
      fpart == SubSeq(body, cut + 1, Len(body))
  IN  IF \/ Cardinality(commas) > 1
         \/ \E i \in 1..Len(body) : body[i] \notin Digits \cup {","}
         \/ Len(ipart) + Len(fpart) = 0
      THEN NaN
      ELSE Normalize((IF signed /\ u[1] = "-" THEN 0 - 1 ELSE 1)
                       * DigitsVal(ipart \o fpart), Len(fpart))

\* C9: _coerce_numeric returns a numeric series as it is; of any other series
\* it returns, cell by cell, the number the text stands for when every '.' is
\* dropped and ',' is the decimal separator, and NaN (never zero) when that is
\* no number; "1.234,56" becomes 1234.56.
C9_CoerceNumeric ==
  (fn = "coerce" /\ called) =>
    /\ Len(cn_out) = Len(cn_series)
    /\ IsNumericDtype(cn_dtype) => cn_out = cn_series
    /\ ~IsNumericDtype(cn_dtype) =>
         \A i \in 1..Len(cn_series) :
           /\ cn_series[i].k = "str" => cn_out[i] = LocaleValue(cn_series[i].s)
           /\ cn_series[i].k = "na" => cn_out[i] = NaN
           /\ cn_series[i] = Str(Example) => cn_out[i] = Num(123456, 2)

\* C9's case: the object series holding "1.234,56" was coerced to 1234.56.
C9_Witness ==
  /\ fn = "coerce" /\ called
  /\ cn_dtype = "object"
  /\ cn_series = <<Str(Example)>>
  /\ cn_out = <<Num(123456, 2)>>

\* C10 as stated: if the name holds a '(' with a ')' somewhere after it, the
\* unit is the text enclosed by such a pair; otherwise the y-axis label is the
\* placeholder "Wert".
C10_UnitIsEnclosedText ==
  (fn = "units" /\ called) =>
    LET pairs == {p \in (1..Len(iu_name)) \X (1..Len(iu_name)) :
                    p[1] < p[2] /\ iu_name[p[1]] = "(" /\ iu_name[p[2]] = ")"}
    IN  IF pairs # {}
        THEN \E p \in pairs : iu_out.units = SubSeq(iu_name, p[1] + 1, p[2] - 1)
        ELSE iu_out.label = Wert

====
